---- MODULE Spec2Model ----
(***************************************************************************)
(* A model of liquid-rust's interrupt tags (break / continue), the         *)
(* ifchanged block and the array filters (sort, nil-safe comparison,       *)
(* argument validation).                                                   *)
(*                                                                         *)
(* Rendering is modelled as a stack machine over the renderable tree: one  *)
(* frame per active composite render_to call, one action per node kind.    *)
(* Filters are pure operators, applied by the actions of FilterSpec to     *)
(* inputs drawn from bounded sets.                                         *)
(***************************************************************************)
EXTENDS Integers, Sequences, FiniteSets, TLC

VARIABLES
    tid,        \* which template is being rendered
    at,         \* the value the template's `if` compares its loop variable to
    stack,      \* active render_to calls, innermost last
    bufs,       \* the writers: bufs[1] is the caller's sink, the rest are
                \* the `rendered` buffers of the active ifchanged blocks
    interrupt,  \* Context's interrupt slot: "None" | "Break" | "Continue"
    registers,  \* Context's registers
    scopes,     \* Context's variable stack, innermost last
    status,     \* "running" | "ok" | "err": the result of Template::render
    trace,      \* the trace attached to the error, innermost first
    log,        \* history: one entry per has_changed call
    renders,    \* number of render calls started so far
    fpc,        \* filter side: which operation was applied last
    fin,        \* filter side: the input and the arguments
    fres        \* filter side: the result

rvars == <<tid, at, stack, bufs, interrupt, registers, scopes, status, trace, log, renders>>
fvars == <<fpc, fin, fres>>
vars == <<tid, at, stack, bufs, interrupt, registers, scopes, status, trace, log, renders,
          fpc, fin, fres>>

(***************************************************************************)
(* Bounds                                                                  *)
(***************************************************************************)
MaxRenders == 2

(***************************************************************************)
(* The renderable tree                                                     *)
(***************************************************************************)
Text(s) == [k |-> "text", s |-> s]
Var(name) == [k |-> "var", name |-> name]
BreakNode == [k |-> "break"]
ContinueNode == [k |-> "continue"]
RaiseNode == [k |-> "raise"]
If(var, op, val, body) == [k |-> "if", var |-> var, op |-> op, val |-> val, body |-> body]
For(var, lo, hi, body) == [k |-> "for", var |-> var, lo |-> lo, hi |-> hi, body |-> body]
IfChangedNode(id, body) == [k |-> "ifchanged", id |-> id, if_changed |-> body]

\* the ranges and comparison values of the tests
SimpleBreakHi == 10
SimpleBreakAt == 2
SimpleContinueHi == 5
SimpleContinueAt == 2
OuterHi == 3
InnerLo == 6
InnerHi == 10
NestedAt == 8
IfChangedHi == 10
IfChangedAt == 5
SeqHi == 2

test_simple_break(a) ==
    << For("i", 0, SimpleBreakHi,
           << Text("enter-"), Var("i"), Text(";"),
              If("i", "==", a, << Text("break-"), Var("i"), Text("\n"), BreakNode >>),
              Text("exit-"), Var("i"), Text("\n") >>) >>

test_nested_break(a) ==
    << For("outer", 0, OuterHi,
           << Text("enter-"), Var("outer"), Text("; "),
              For("inner", InnerLo, InnerHi,
                  << If("inner", "==", a, << Text("break, "), BreakNode >>),
                     Var("inner"), Text(", ") >>),
              Text("exit-"), Var("outer"), Text("\n") >>) >>

test_simple_continue(a) ==
    << For("i", 0, SimpleContinueHi,
           << Text("enter-"), Var("i"), Text(";"),
              If("i", "==", a, << Text("continue-"), Var("i"), Text("\n"), ContinueNode >>),
              Text("exit-"), Var("i"), Text("\n") >>) >>

test_nested_continue(a) ==
    << For("outer", 0, OuterHi,
           << Text("enter-"), Var("outer"), Text("; "),
              For("inner", InnerLo, InnerHi,
                  << If("inner", "==", a, << Text("continue, "), ContinueNode >>),
                     Var("inner"), Text(", ") >>),
              Text("exit-"), Var("outer"), Text("\n") >>) >>

test_ifchanged_block(a) ==
    << For("a", 0, IfChangedHi,
           << IfChangedNode(1,
                  << Text("\nHey! "),
                     If("a", ">", a, << Text("Numbers are now bigger than 5!") >>) >>) >>) >>

\* further templates: interrupts outside any loop, two ifchanged blocks in
\* one loop, an interrupt and an error inside an ifchanged body
top_break == << Text("a"), BreakNode, Text("b") >>
top_continue == << Text("a"), If("none", "==", 0, << Text("c") >>), ContinueNode, Text("b") >>

ifchanged_seq(a) ==
    << For("a", 0, SeqHi,
           << IfChangedNode(1, << Text("A"), If("a", "==", a, << Text("B") >>) >>) >>) >>

two_ifchanged(a) ==
    << For("a", 0, SeqHi,
           << IfChangedNode(1, << Text("x") >>),
              IfChangedNode(2, << Text("x"), If("a", "==", a, << Text("y") >>) >>) >>) >>

ifchanged_break(a) ==
    << For("a", 0, SeqHi,
           << IfChangedNode(1, << Text("t"), If("a", "==", a, << BreakNode >>), Text("u") >>),
              Text("v") >>) >>

ifchanged_continue(a) ==
    << For("a", 0, SeqHi,
           << IfChangedNode(1, << Text("t"), If("a", "==", a, << ContinueNode >>) >>),
              Text("v") >>) >>

ifchanged_raise(a) ==
    << For("a", 0, SeqHi,
           << IfChangedNode(1, << Text("t"), If("a", "==", a, << RaiseNode >>) >>) >>) >>

TemplateIds ==
    { "simple_break", "nested_break", "simple_continue", "nested_continue",
      "ifchanged", "top_break", "top_continue", "ifchanged_seq", "two_ifchanged",
      "ifchanged_break", "ifchanged_raise", "ifchanged_continue" }

AtValues(t) ==
    CASE t = "simple_break" -> 0 .. SimpleBreakHi + 1
      [] t = "nested_break" -> InnerLo .. InnerHi + 1
      [] t = "simple_continue" -> 0 .. SimpleContinueHi + 1
      [] t = "nested_continue" -> InnerLo .. InnerHi + 1
      [] t = "ifchanged" -> {IfChangedAt}
      [] t \in {"top_break", "top_continue"} -> {0}
      [] OTHER -> 0 .. SeqHi + 1

Template(t, a) ==
    CASE t = "simple_break" -> test_simple_break(a)
      [] t = "nested_break" -> test_nested_break(a)
      [] t = "simple_continue" -> test_simple_continue(a)
      [] t = "nested_continue" -> test_nested_continue(a)
      [] t = "ifchanged" -> test_ifchanged_block(a)
      [] t = "top_break" -> top_break
      [] t = "top_continue" -> top_continue
      [] t = "ifchanged_seq" -> ifchanged_seq(a)
      [] t = "two_ifchanged" -> two_ifchanged(a)
      [] t = "ifchanged_break" -> ifchanged_break(a)
      [] t = "ifchanged_continue" -> ifchanged_continue(a)
      [] OTHER -> ifchanged_raise(a)

(***************************************************************************)
(* The leaves of src/src/tags/interrupt_tags.rs                            *)
(***************************************************************************)
\* a render_to result: the new interrupt slot, the bytes written, Ok or Err
Break_render_to_err(intr) == [interrupt |-> "Break", written |-> "", ok |-> FALSE]
Break_render_to_as_continue(intr) == [interrupt |-> "Continue", written |-> "", ok |-> TRUE]
Break_render_to(intr) == [interrupt |-> "Break", written |-> "", ok |-> TRUE]

Continue_render_to_as_break(intr) == [interrupt |-> "Break", written |-> "", ok |-> TRUE]
Continue_render_to(intr) == [interrupt |-> "Continue", written |-> "", ok |-> TRUE]

(***************************************************************************)
(* src/src/tags/ifchanged_block.rs                                         *)
(***************************************************************************)
\* Option<String>: <<>> is None, <<s>> is Some(s)
None == <<>>
Some(s) == <<s>>

State_default == [last_rendered |-> None]

\* State::has_changed: the answer and the state after the call
has_changed_keep_old(state, rendered) ==
    LET changed == IF state.last_rendered # None
                   THEN state.last_rendered[1] # rendered
                   ELSE TRUE
    IN [has_changed |-> changed,
        state |-> IF changed THEN [last_rendered |-> Some(rendered)] ELSE state]
has_changed_no_store(state, rendered) ==
    [has_changed |-> IF state.last_rendered # None
                     THEN state.last_rendered[1] # rendered
                     ELSE TRUE,
     state |-> state]
has_changed_first_silent(state, rendered) ==
    [has_changed |-> IF state.last_rendered # None
                     THEN state.last_rendered[1] # rendered
                     ELSE FALSE,
     state |-> [last_rendered |-> Some(rendered)]]
has_changed_keep_first(state, rendered) ==
    [has_changed |-> IF state.last_rendered # None
                     THEN state.last_rendered[1] # rendered
                     ELSE TRUE,
     state |-> IF state.last_rendered # None THEN state ELSE [last_rendered |-> Some(rendered)]]
has_changed(state, rendered) ==
    LET changed == IF state.last_rendered # None
                   THEN state.last_rendered[1] # rendered
                   ELSE TRUE
    IN [has_changed |-> changed, state |-> [last_rendered |-> Some(rendered)]]

\* context.get_register_mut::<State>(): the register is selected by the type
\* State alone; the call passes nothing that identifies the calling node
RegisterKeyByNode(id) == ToString(id)
RegisterKey(id) == "State"

\* get_register_mut creates the register with its Default on first access
get_register(regs, key) ==
    IF key \in DOMAIN regs THEN regs[key] ELSE State_default

IfChanged_trace == "{{% ifchanged %}}"

(***************************************************************************)
(* Context and the composites                                              *)
(***************************************************************************)
\* Context::new()
Context_new_keep_registers(regs) == regs
Context_new_registers(regs) == << >>

Lookup(sc, name) ==
    LET hits == { j \in 1 .. Len(sc) : sc[j].name = name }
    IN IF hits = {} THEN None
       ELSE Some(sc[CHOOSE j \in hits : \A h \in hits : h <= j].value)

Cond(node, sc) ==
    LET v == Lookup(sc, node.var)
    IN IF v = None THEN FALSE
       ELSE IF node.op = "==" THEN v[1] = node.val ELSE v[1] > node.val

TplFrame(nodes) == [k |-> "tpl", nodes |-> nodes, i |-> 1]

\* Template::render_to: after each child, stop if the slot is set
AfterChild(fr, intr) ==
    [fr EXCEPT !.i = IF intr # "None" THEN Len(fr.nodes) + 1 ELSE fr.i + 1]

Top == stack[Len(stack)]
Below == stack[Len(stack) - 1]
Pop(s) == SubSeq(s, 1, Len(s) - 1)
ReplaceTop(s, fr) == [s EXCEPT ![Len(s)] = fr]
Write(b, text) == [b EXCEPT ![Len(b)] = b[Len(b)] \o text]
out == bufs[1]

AtLeaf(kind) ==
    /\ status = "running"
    /\ stack # << >>
    /\ Top.k = "tpl"
    /\ Top.i <= Len(Top.nodes)
    /\ Top.nodes[Top.i].k = kind
Here == Top.nodes[Top.i]

Finished ==
    /\ status = "running"
    /\ stack # << >>
    /\ Top.k = "tpl"
    /\ Top.i > Len(Top.nodes)

RenderInit ==
    /\ tid \in TemplateIds
    /\ at \in AtValues(tid)
    /\ stack = << TplFrame(Template(tid, at)) >>
    /\ bufs = << "" >>
    /\ interrupt = "None"
    /\ registers = << >>
    /\ scopes = << >>
    /\ status = "running"
    /\ trace = << >>
    /\ log = << >>
    /\ renders = 1

RenderText ==
    /\ AtLeaf("text")
    /\ bufs' = Write(bufs, Here.s)
    /\ stack' = ReplaceTop(stack, AfterChild(Top, interrupt))
    /\ UNCHANGED <<fpc, fin, fres, tid, at, interrupt, registers, scopes, status, trace, log, renders>>

RenderVar ==
    /\ AtLeaf("var")
    /\ LET v == Lookup(scopes, Here.name)
       IN bufs' = Write(bufs, IF v = None THEN "" ELSE ToString(v[1]))
    /\ stack' = ReplaceTop(stack, AfterChild(Top, interrupt))
    /\ UNCHANGED <<fpc, fin, fres, tid, at, interrupt, registers, scopes, status, trace, log, renders>>

\* the error of a nested renderable reaches the caller through every `?`;
\* each enclosing composite adds its trace
TraceOf(s) ==
    LET idx == { j \in 1 .. Len(s) : s[j].k \in {"ifc", "for"} }
        F[n \in 0 .. Len(s)] ==
            IF n = 0 THEN << >>
            ELSE IF n \in idx
                 THEN << IF s[n].k = "ifc" THEN IfChanged_trace ELSE "{% for %}" >> \o F[n - 1]
                 ELSE F[n - 1]
    IN F[Len(s)]

Fail ==
    /\ status' = "err"
    /\ trace' = TraceOf(stack)
    /\ stack' = << >>
    /\ bufs' = << bufs[1] >>
    /\ UNCHANGED <<fpc, fin, fres, tid, at, registers, scopes, log, renders>>

Leaf(r) ==
    IF r.ok
    THEN /\ interrupt' = r.interrupt
         /\ bufs' = Write(bufs, r.written)
         /\ stack' = ReplaceTop(stack, AfterChild(Top, r.interrupt))
         /\ UNCHANGED <<fpc, fin, fres, tid, at, registers, scopes, status, trace, log, renders>>
    ELSE Fail /\ interrupt' = r.interrupt

RenderBreak ==
    /\ AtLeaf("break")
    /\ Leaf(Break_render_to(interrupt))

RenderContinue ==
    /\ AtLeaf("continue")
    /\ Leaf(Continue_render_to(interrupt))

RenderRaise ==
    /\ AtLeaf("raise")
    /\ Fail
    /\ UNCHANGED interrupt

\* the if block: render the body when the condition holds
RenderIf ==
    /\ AtLeaf("if")
    /\ IF Cond(Here, scopes)
       THEN stack' = Append(stack, TplFrame(Here.body))
       ELSE stack' = ReplaceTop(stack, AfterChild(Top, interrupt))
    /\ UNCHANGED <<fpc, fin, fres, tid, at, bufs, interrupt, registers, scopes, status, trace, log, renders>>

\* the body of an if block returns to the enclosing template
IfReturn ==
    /\ Finished
    /\ Len(stack) > 1
    /\ Below.k = "tpl"
    /\ stack' = ReplaceTop(Pop(stack), AfterChild(Below, interrupt))
    /\ UNCHANGED <<fpc, fin, fres, tid, at, bufs, interrupt, registers, scopes, status, trace, log, renders>>

\* the for block over a range
EnterFor ==
    /\ AtLeaf("for")
    /\ stack' = Append(stack, [k |-> "for", node |-> Here, cur |-> Here.lo])
    /\ scopes' = Append(scopes, [name |-> Here.var, value |-> Here.lo])
    /\ UNCHANGED <<fpc, fin, fres, tid, at, bufs, interrupt, registers, status, trace, log, renders>>

ForIterate ==
    /\ status = "running"
    /\ stack # << >>
    /\ Top.k = "for"
    /\ Top.cur <= Top.node.hi
    /\ scopes' = [scopes EXCEPT ![Len(scopes)].value = Top.cur]
    /\ stack' = Append(stack, TplFrame(Top.node.body))
    /\ UNCHANGED <<fpc, fin, fres, tid, at, bufs, interrupt, registers, status, trace, log, renders>>

\* pop_interrupt: the loop clears the slot; Break ends the loop
ForBodyDone ==
    /\ Finished
    /\ Len(stack) > 1
    /\ Below.k = "for"
    /\ interrupt' = "None"
    /\ stack' = ReplaceTop(Pop(stack),
                   [Below EXCEPT !.cur = IF interrupt = "Break"
                                         THEN Below.node.hi + 1
                                         ELSE Below.cur + 1])
    /\ UNCHANGED <<fpc, fin, fres, tid, at, bufs, registers, scopes, status, trace, log, renders>>

ForExit ==
    /\ status = "running"
    /\ stack # << >>
    /\ Top.k = "for"
    /\ Top.cur > Top.node.hi
    /\ scopes' = Pop(scopes)
    /\ stack' = ReplaceTop(Pop(stack), AfterChild(Below, interrupt))
    /\ UNCHANGED <<fpc, fin, fres, tid, at, bufs, interrupt, registers, status, trace, log, renders>>

\* IfChanged::render_to, first half: render the body into `rendered`
EnterIfChanged ==
    /\ AtLeaf("ifchanged")
    /\ stack' = stack \o << [k |-> "ifc", id |-> Here.id], TplFrame(Here.if_changed) >>
    /\ bufs' = Append(bufs, "")
    /\ UNCHANGED <<fpc, fin, fres, tid, at, interrupt, registers, scopes, status, trace, log, renders>>

\* IfChanged::render_to, second half: compare with the register and write
IfChangedDone_clears_interrupt ==
    /\ Finished
    /\ Len(stack) > 1
    /\ Below.k = "ifc"
    /\ LET rendered == bufs[Len(bufs)]
           key == RegisterKey(Below.id)
           before == get_register(registers, key)
           r == has_changed(before, rendered)
           parent == stack[Len(stack) - 2]
       IN /\ registers' = [ x \in DOMAIN registers \cup {key} |->
                              IF x = key THEN r.state ELSE registers[x] ]
          /\ bufs' = IF r.has_changed THEN Write(Pop(bufs), rendered) ELSE Pop(bufs)
          /\ stack' = ReplaceTop(Pop(Pop(stack)), AfterChild(parent, "None"))
          /\ log' = Append(log, [render |-> renders, id |-> Below.id, rendered |-> rendered,
                                 against |-> before.last_rendered, wrote |-> r.has_changed])
    /\ interrupt' = "None"
    /\ UNCHANGED <<fpc, fin, fres, tid, at, scopes, status, trace, renders>>
IfChangedDone ==
    /\ Finished
    /\ Len(stack) > 1
    /\ Below.k = "ifc"
    /\ LET rendered == bufs[Len(bufs)]
           key == RegisterKey(Below.id)
           before == get_register(registers, key)
           r == has_changed(before, rendered)
           parent == stack[Len(stack) - 2]
       IN /\ registers' = [ x \in DOMAIN registers \cup {key} |->
                              IF x = key THEN r.state ELSE registers[x] ]
          /\ bufs' = IF r.has_changed THEN Write(Pop(bufs), rendered) ELSE Pop(bufs)
          /\ stack' = ReplaceTop(Pop(Pop(stack)), AfterChild(parent, interrupt))
          /\ log' = Append(log, [render |-> renders, id |-> Below.id, rendered |-> rendered,
                                 against |-> before.last_rendered, wrote |-> r.has_changed])
    /\ UNCHANGED <<fpc, fin, fres, tid, at, interrupt, scopes, status, trace, renders>>

\* Template::render returns Ok: an interrupt still set is not looked at
RenderDone ==
    /\ Finished
    /\ Len(stack) = 1
    /\ status' = "ok"
    /\ stack' = << >>
    /\ UNCHANGED <<fpc, fin, fres, tid, at, bufs, interrupt, registers, scopes, trace, log, renders>>

\* the same tree is rendered again with Context::new()
NewRender ==
    /\ status \in {"ok", "err"}
    /\ renders < MaxRenders
    /\ renders' = renders + 1
    /\ stack' = << TplFrame(Template(tid, at)) >>
    /\ bufs' = << "" >>
    /\ interrupt' = "None"
    /\ registers' = Context_new_registers(registers)
    /\ scopes' = << >>
    /\ status' = "running"
    /\ trace' = << >>
    /\ UNCHANGED <<fpc, fin, fres, tid, at, log>>

(***************************************************************************)
(* Expected outputs, written down independently of the renderer            *)
(***************************************************************************)
RECURSIVE InnerBreak(_, _)
InnerBreak(v, a) ==
    IF v > InnerHi THEN ""
    ELSE IF v = a THEN "break, "
    ELSE ToString(v) \o ", " \o InnerBreak(v + 1, a)

RECURSIVE InnerContinue(_, _)
InnerContinue(v, a) ==
    IF v > InnerHi THEN ""
    ELSE (IF v = a THEN "continue, " ELSE ToString(v) \o ", ") \o InnerContinue(v + 1, a)

RECURSIVE ExpectedNestedBreak(_, _)
ExpectedNestedBreak(n, a) ==
    IF n > OuterHi THEN ""
    ELSE "enter-" \o ToString(n) \o "; " \o InnerBreak(InnerLo, a)
         \o "exit-" \o ToString(n) \o "\n" \o ExpectedNestedBreak(n + 1, a)

RECURSIVE ExpectedNestedContinue(_, _)
ExpectedNestedContinue(n, a) ==
    IF n > OuterHi THEN ""
    ELSE "enter-" \o ToString(n) \o "; " \o InnerContinue(InnerLo, a)
         \o "exit-" \o ToString(n) \o "\n" \o ExpectedNestedContinue(n + 1, a)

RECURSIVE ExpectedSimpleBreak(_, _)
ExpectedSimpleBreak(i, a) ==
    IF i > SimpleBreakHi THEN ""
    ELSE IF i = a THEN "enter-" \o ToString(i) \o ";break-" \o ToString(i) \o "\n"
    ELSE "enter-" \o ToString(i) \o ";exit-" \o ToString(i) \o "\n"
         \o ExpectedSimpleBreak(i + 1, a)

RECURSIVE ExpectedSimpleContinue(_, _)
ExpectedSimpleContinue(i, a) ==
    IF i > SimpleContinueHi THEN ""
    ELSE "enter-" \o ToString(i) \o ";"
         \o (IF i = a THEN "continue-" ELSE "exit-") \o ToString(i) \o "\n"
         \o ExpectedSimpleContinue(i + 1, a)

\* the strings the tests assert
NestedBreakOutput ==
    "enter-0; 6, 7, break, exit-0\n" \o "enter-1; 6, 7, break, exit-1\n"
    \o "enter-2; 6, 7, break, exit-2\n" \o "enter-3; 6, 7, break, exit-3\n"
NestedContinueOutput ==
    "enter-0; 6, 7, continue, 9, 10, exit-0\n" \o "enter-1; 6, 7, continue, 9, 10, exit-1\n"
    \o "enter-2; 6, 7, continue, 9, 10, exit-2\n" \o "enter-3; 6, 7, continue, 9, 10, exit-3\n"
SimpleBreakOutput == "enter-0;exit-0\n" \o "enter-1;exit-1\n" \o "enter-2;break-2\n"
SimpleContinueOutput ==
    "enter-0;exit-0\n" \o "enter-1;exit-1\n" \o "enter-2;continue-2\n"
    \o "enter-3;exit-3\n" \o "enter-4;exit-4\n" \o "enter-5;exit-5\n"
IfChangedOutput == "\nHey! \nHey! Numbers are now bigger than 5!"

(***************************************************************************)
(* Properties of the interrupt tags                                        *)
(***************************************************************************)
\* C1: a break in a loop nested in another loop stops the innermost loop
\* only: for every break point a, each outer iteration emits enter-N, the
\* inner elements before a, "break, " and then exit-N, and all outer
\* iterations run; with the test's break point 8 the output is the test's.
C1_NestedBreak ==
    (tid = "nested_break" /\ status = "ok") =>
        /\ out = ExpectedNestedBreak(0, at)
        /\ at = NestedAt => out = NestedBreakOutput
        /\ interrupt = "None"

C1_Witness ==
    /\ tid = "nested_break"
    /\ at = NestedAt
    /\ status = "ok"
    /\ out = NestedBreakOutput

\* C2: a continue in a loop nested in another loop skips the rest of the
\* current inner iteration only: the element at a is not emitted, the later
\* inner iterations and the outer loop run in full.
C2_NestedContinue ==
    (tid = "nested_continue" /\ status = "ok") =>
        /\ out = ExpectedNestedContinue(0, at)
        /\ at = NestedAt => out = NestedContinueOutput
        /\ interrupt = "None"

C2_Witness ==
    /\ tid = "nested_continue"
    /\ at = NestedAt
    /\ status = "ok"
    /\ out = NestedContinueOutput

\* C3: while the interrupt slot is set, the only steps taken are returns of
\* composites (no sibling is rendered, no block is entered), the slot is
\* unchanged by them, and it is cleared only when a loop body returns to its
\* for loop; so a break inside an if inside a loop suppresses the rest of the
\* body and all later iterations, a continue the rest of that iteration only.
C3_Step ==
    (status = "running" /\ interrupt # "None") =>
        /\ Len(stack') < Len(stack)
        /\ status' \in {"running", "ok"}
        /\ \/ interrupt' = interrupt
           \/ interrupt' = "None" /\ Len(stack) > 1 /\ Below.k = "for"

C3_Outputs ==
    /\ (tid = "simple_break" /\ status = "ok") =>
          /\ out = ExpectedSimpleBreak(0, at)
          /\ at = SimpleBreakAt => out = SimpleBreakOutput
    /\ (tid = "simple_continue" /\ status = "ok") =>
          /\ out = ExpectedSimpleContinue(0, at)
          /\ at = SimpleContinueAt => out = SimpleContinueOutput

C3_InterruptPropagation == [][C3_Step]_vars /\ []C3_Outputs

C3_Witness ==
    /\ tid = "simple_break"
    /\ at = SimpleBreakAt
    /\ status = "ok"
    /\ out = SimpleBreakOutput

\* C4: rendering a Break or Continue node returns Ok and writes nothing, also
\* outside any loop; the render call then returns Ok with the output written
\* before the tag, and no render without a failing node ends in an error.
C4_Step ==
    (AtLeaf("break") \/ AtLeaf("continue")) =>
        /\ bufs' = bufs
        /\ status' = "running"
        /\ interrupt' = (IF AtLeaf("break") THEN "Break" ELSE "Continue")

C4_Final ==
    /\ (tid \in {"top_break", "top_continue"} /\ status # "running") =>
          /\ status = "ok"
          /\ out = "a"
          /\ interrupt = (IF tid = "top_break" THEN "Break" ELSE "Continue")
    /\ status = "err" => tid = "ifchanged_raise"

C4_InterruptOutsideLoop == [][C4_Step]_vars /\ []C4_Final

C4_Witness ==
    /\ tid = "top_break"
    /\ status = "ok"
    /\ interrupt = "Break"
    /\ out = "a"

(***************************************************************************)
(* Properties of the ifchanged block                                       *)
(***************************************************************************)
FirstOfRender(n) == n = 1 \/ log[n - 1].render # log[n].render

\* the text of the previous has_changed call of the same render call
PrevAny(n) == IF FirstOfRender(n) THEN None ELSE Some(log[n - 1].rendered)

\* the text of the previous has_changed call of the same block
PrevOwn(n) ==
    LET own == { m \in 1 .. n - 1 : log[m].render = log[n].render /\ log[m].id = log[n].id }
    IN IF own = {} THEN None
       ELSE Some(log[CHOOSE m \in own : \A h \in own : h <= m].rendered)

C16_Step ==
    (status = "running" /\ status' = "err") =>
        /\ bufs'[1] = bufs[1]
        /\ registers' = registers
        /\ log' = log

\* the failed render of ifchanged_raise: the error is not swallowed, the
\* output and the register are those of the last successful render
C16_Failed ==
    (tid = "ifchanged_raise" /\ at <= SeqHi /\ status # "running") =>
        /\ status = "err"
        /\ out = (IF at = 0 THEN "" ELSE "t")
        /\ registers = (IF at = 0 THEN << >> ELSE [ x \in {"State"} |-> [last_rendered |-> Some("t")] ])

\* C16 as stated: the error of the body is returned tagged with the trace
\* '{% ifchanged %}'; nothing is written and the register is unchanged.
C16_ErrorTagged ==
    /\ C16_Failed
    /\ (tid = "ifchanged_raise" /\ status = "err") =>
          \E j \in 1 .. Len(trace) : trace[j] = "{% ifchanged %}"

\* C16 of the code: when rendering the body of an ifchanged block fails, the
\* block returns that error and does not swallow it, writes nothing to the
\* output sink and leaves its register unchanged; the trace it adds is the
\* text of IfChanged::trace, which is '{{% ifchanged %}}' with doubled braces.
C16_ErrorPropagates ==
    /\ [][C16_Step]_vars
    /\ [](C16_Failed
          /\ ((tid = "ifchanged_raise" /\ status = "err") =>
                 /\ trace = << IfChanged_trace, "{% for %}" >>
                 /\ trace[1] = "{{% ifchanged %}}"))

C16_Witness ==
    /\ tid = "ifchanged_raise"
    /\ at = 1
    /\ status = "err"
    /\ out = "t"
    /\ trace[1] = "{{% ifchanged %}}"
    /\ registers["State"].last_rendered = Some("t")

\* C17: after every call of has_changed(r) the stored text is r, whether the
\* call answered true or false, so a block is compared against the
\* immediately preceding render only: texts x, y, x are all emitted (A, AB, A
\* with the change in the second iteration), and x, x, y emits the first and
\* the third only (A, A, AB with the change in the third).
C17_StoresRendered ==
    /\ (log # << >> /\ log[Len(log)].render = renders) =>
          registers["State"].last_rendered = Some(log[Len(log)].rendered)
    /\ \A n \in 2 .. Len(log) :
          log[n].render = log[n - 1].render =>
              /\ log[n].against = Some(log[n - 1].rendered)
              /\ log[n].wrote <=> log[n].rendered # log[n - 1].rendered
    /\ (tid = "ifchanged_seq" /\ at = 1 /\ Len(log) >= 3) =>
          /\ << log[1].rendered, log[2].rendered, log[3].rendered >> = << "A", "AB", "A" >>
          /\ << log[1].wrote, log[2].wrote, log[3].wrote >> = << TRUE, TRUE, TRUE >>
    /\ (tid = "ifchanged_seq" /\ at = 2 /\ Len(log) >= 3) =>
          /\ << log[1].rendered, log[2].rendered, log[3].rendered >> = << "A", "A", "AB" >>
          /\ << log[1].wrote, log[2].wrote, log[3].wrote >> = << TRUE, FALSE, TRUE >>

C17_Witness ==
    /\ tid = "ifchanged_seq"
    /\ at = 1
    /\ Len(log) = 3
    /\ log[3].rendered = "A"
    /\ log[3].against = Some("AB")
    /\ log[3].wrote
    /\ registers["State"].last_rendered = Some("A")

\* the output of ifchanged_continue: "t" once, and "v" in every iteration
\* but the one that continues
RECURSIVE ExpectedIfChangedContinue(_, _)
ExpectedIfChangedContinue(a, c) ==
    IF a > SeqHi THEN ""
    ELSE (IF a = 0 THEN "t" ELSE "")
         \o (IF a = c THEN "" ELSE "v")
         \o ExpectedIfChangedContinue(a + 1, c)

\* the output of ifchanged_break: "tu" once and "v" per iteration, until the
\* iteration that breaks writes "t" and ends the loop
RECURSIVE ExpectedIfChangedBreak(_, _)
ExpectedIfChangedBreak(a, c) ==
    IF a > SeqHi THEN ""
    ELSE IF a = c THEN "t"
    ELSE (IF a = 0 THEN "tu" ELSE "") \o "v" \o ExpectedIfChangedBreak(a + 1, c)

\* the steps in which an ifchanged block starts (a buffer for the body is
\* added) and returns (a comparison is logged) leave the interrupt slot alone
C18_Step ==
    (log' # log \/ Len(bufs') > Len(bufs)) => interrupt' = interrupt

C18_Outputs ==
    /\ \A n \in 1 .. Len(log) :
          (tid = "ifchanged_continue" /\ log[n].render = 1) =>
              /\ log[n].rendered = "t"
              /\ log[n].wrote <=> n = 1
    /\ (tid = "ifchanged_continue" /\ status = "ok") =>
          /\ out = ExpectedIfChangedContinue(0, at)
          /\ Len(log) = renders * (SeqHi + 1)
    /\ (tid = "ifchanged_break" /\ status = "ok") => out = ExpectedIfChangedBreak(0, at)

\* C18: the body of an ifchanged block is rendered against the real context
\* on every invocation, whether or not its text is then emitted: an
\* interrupt raised inside the body is still set when the block returns,
\* also when the body's output was suppressed as unchanged, and the block
\* itself never sets or clears the interrupt slot.
C18_InterruptThroughIfChanged == [][C18_Step]_vars /\ []C18_Outputs

C18_Witness ==
    /\ tid = "ifchanged_continue"
    /\ at = 1
    /\ status = "running"
    /\ Len(log) = 2
    /\ ~log[2].wrote
    /\ interrupt = "Continue"
    /\ Len(bufs) = 1
    /\ out = "tv"


FilterIdle ==
    /\ fpc = "idle"
    /\ fin = << >>
    /\ fres = << >>

(***************************************************************************)
(* The value model used by src/src/filters/std/array.rs                    *)
(***************************************************************************)
\* strings are sequences of bytes: "Z" is <<90>>, "a" is <<97>>
Nil == [t |-> "nil"]
Integer(n) == [t |-> "int", v |-> n]
Bool(b) == [t |-> "bool", v |-> b]
tos(bytes) == [t |-> "str", v |-> bytes]
Array(seq) == [t |-> "arr", v |-> seq]
Object(map) == [t |-> "obj", v |-> map]

is_object(value) == value.t = "obj"
is_nil(value) == value.t = "nil"

Less == "Less"
Equal == "Equal"
Greater == "Greater"

\* Ordering::reverse on an Option<Ordering>
Reverse(o) ==
    IF o = None THEN None
    ELSE IF o[1] = Less THEN Some(Greater)
    ELSE IF o[1] = Greater THEN Some(Less)
    ELSE Some(Equal)

\* str::cmp: byte-wise lexicographic
str_cmp(x, y) ==
    LET m == IF Len(x) < Len(y) THEN Len(x) ELSE Len(y)
        diff == { j \in 1 .. m : x[j] # y[j] }
    IN IF diff = {}
       THEN (IF Len(x) < Len(y) THEN Less ELSE IF Len(x) > Len(y) THEN Greater ELSE Equal)
       ELSE LET d == CHOOSE j \in diff : \A h \in diff : j <= h
            IN IF x[d] < y[d] THEN Less ELSE Greater

int_cmp(x, y) == IF x < y THEN Less ELSE IF x > y THEN Greater ELSE Equal

\* Value::partial_cmp: scalars of one kind are ordered, values of different
\* kinds are not. Arrays and objects compare element-wise; the inputs of this
\* model hold no nested array and never two different objects in one
\* comparison, so only the comparison of a value with itself is needed there.
partial_cmp(a, b) ==
    IF a.t = "int" /\ b.t = "int" THEN Some(int_cmp(a.v, b.v))
    ELSE IF a.t = "str" /\ b.t = "str" THEN Some(str_cmp(a.v, b.v))
    ELSE IF a.t = "bool" /\ b.t = "bool"
         THEN Some(IF a.v = b.v THEN Equal ELSE IF b.v THEN Less ELSE Greater)
    ELSE IF a.t = b.t /\ a = b THEN Some(Equal)
    ELSE None

\* Value::to_str of a scalar
RECURSIVE Digits(_)
Digits(n) == IF n < 10 THEN << 48 + n >> ELSE Digits(n \div 10) \o << 48 + (n % 10) >>

to_str(value) ==
    IF value.t = "str" THEN value.v
    ELSE IF value.t = "int" THEN Digits(value.v)
    ELSE IF value.t = "bool"
         THEN (IF value.v THEN << 116, 114, 117, 101 >> ELSE << 102, 97, 108, 115, 101 >>)
    ELSE << >>

\* str::to_lowercase on ASCII
to_lowercase(x) == [ j \in 1 .. Len(x) |-> IF x[j] >= 65 /\ x[j] <= 90 THEN x[j] + 32 ELSE x[j] ]

(***************************************************************************)
(* src/src/filters/std/array.rs                                            *)
(***************************************************************************)
nil_safe_compare_nil_first(a, b) ==
    IF is_nil(a) /\ is_nil(b) THEN Some(Equal)
    ELSE IF is_nil(a) THEN Some(Less)
    ELSE IF is_nil(b) THEN Some(Greater)
    ELSE partial_cmp(a, b)
nil_safe_compare(a, b) ==
    IF is_nil(a) /\ is_nil(b) THEN Some(Equal)
    ELSE IF is_nil(a) THEN Some(Greater)
    ELSE IF is_nil(b) THEN Some(Less)
    ELSE partial_cmp(a, b)

nil_safe_casecmp_key(value) ==
    IF is_nil(value) THEN None ELSE Some(to_lowercase(to_str(value)))

\* Option<String>::partial_cmp on two Some
nil_safe_casecmp(a, b) ==
    IF a = None /\ b = None THEN Some(Equal)
    ELSE IF a = None THEN Some(Greater)
    ELSE IF b = None THEN Some(Less)
    ELSE Some(str_cmp(a[1], b[1]))

unwrap_or(o, default) == IF o = None THEN default ELSE o[1]

safe_property_getter(value, property) ==
    IF is_object(value) /\ property \in DOMAIN value.v THEN value.v[property] ELSE Nil

\* as_sequence!: an array is its elements, Nil is empty, any other value is
\* a sequence of one
as_sequence(value) ==
    IF value.t = "arr" THEN value.v
    ELSE IF is_nil(value) THEN << >>
    ELSE << value >>

\* slice::sort_by on a short slice: insertion sort that inserts each element,
\* from the last but one down to the first, into the sorted tail after it.
\* The slice holds the positions 1 .. n of the input and the result lists
\* them in sorted order; is_less[x, y] is the comparison closure applied to
\* the elements at positions x and y.
insert_head(v, is_less) ==
    IF Len(v) >= 2 /\ is_less[v[2], v[1]]
    THEN LET p == CHOOSE q \in 2 .. Len(v) :
                      /\ \A h \in 2 .. q : is_less[v[h], v[1]]
                      /\ q = Len(v) \/ ~is_less[v[q + 1], v[1]]
         IN SubSeq(v, 2, p) \o << v[1] >> \o SubSeq(v, p + 1, Len(v))
    ELSE v

sort_by(n, is_less) ==
    LET S[j \in 1 .. n + 1] ==
            IF j >= n THEN [ x \in 1 .. n |-> x ]
            ELSE SubSeq(S[j + 1], 1, j - 1) \o insert_head(SubSeq(S[j + 1], j, n), is_less)
    IN SubSeq(S[1], 1, n)

invalid_input(cause) == [ok |-> FALSE, error |-> "Invalid input", cause |-> cause]

\* SortFilter::evaluate; property is an Option<&str>
SortFilter_evaluate_unstable(input, property) ==
    LET seq == as_sequence(input)
        key(j) == IF property = None THEN seq[j] ELSE safe_property_getter(seq[j], property[1])
        is_less == [ x \in 1 .. Len(seq), y \in 1 .. Len(seq) |->
                       unwrap_or(nil_safe_compare(key(x), key(y)), Equal) # Greater ]
        perm == sort_by(Len(seq), is_less)
    IN IF property # None /\ ~(\A j \in 1 .. Len(seq) : is_object(seq[j]))
       THEN invalid_input("Array of objects expected")
       ELSE [ok |-> TRUE, value |-> Array(SubSeq([ j \in 1 .. Len(seq) |-> seq[perm[j]] ], 1, Len(seq))),
             perm |-> perm]
SortFilter_evaluate(input, property) ==
    LET seq == as_sequence(input)
        key(j) == IF property = None THEN seq[j] ELSE safe_property_getter(seq[j], property[1])
        is_less == [ x \in 1 .. Len(seq), y \in 1 .. Len(seq) |->
                       unwrap_or(nil_safe_compare(key(x), key(y)), Equal) = Less ]
        perm == sort_by(Len(seq), is_less)
    IN IF property # None /\ ~(\A j \in 1 .. Len(seq) : is_object(seq[j]))
       THEN invalid_input("Array of objects expected")
       ELSE [ok |-> TRUE, value |-> Array(SubSeq([ j \in 1 .. Len(seq) |-> seq[perm[j]] ], 1, Len(seq))),
             perm |-> perm]

\* SortNaturalFilter::evaluate: the vector of (key, value) pairs is sorted on
\* the keys and the values are taken out of it
SortNaturalFilter_evaluate_case_sensitive(input, property) ==
    LET seq == as_sequence(input)
        key(j) == IF is_nil(IF property = None THEN seq[j]
                            ELSE safe_property_getter(seq[j], property[1]))
                  THEN None
                  ELSE Some(to_str(IF property = None THEN seq[j]
                                   ELSE safe_property_getter(seq[j], property[1])))
        is_less == [ x \in 1 .. Len(seq), y \in 1 .. Len(seq) |->
                       unwrap_or(nil_safe_casecmp(key(x), key(y)), Equal) = Less ]
        perm == sort_by(Len(seq), is_less)
    IN IF property # None /\ ~(\A j \in 1 .. Len(seq) : is_object(seq[j]))
       THEN invalid_input("Array of objects expected")
       ELSE [ok |-> TRUE, value |-> Array(SubSeq([ j \in 1 .. Len(seq) |-> seq[perm[j]] ], 1, Len(seq))),
             perm |-> perm]
SortNaturalFilter_evaluate(input, property) ==
    LET seq == as_sequence(input)
        key(j) == IF property = None THEN nil_safe_casecmp_key(seq[j])
                  ELSE nil_safe_casecmp_key(safe_property_getter(seq[j], property[1]))
        is_less == [ x \in 1 .. Len(seq), y \in 1 .. Len(seq) |->
                       unwrap_or(nil_safe_casecmp(key(x), key(y)), Equal) = Less ]
        perm == sort_by(Len(seq), is_less)
    IN IF property # None /\ ~(\A j \in 1 .. Len(seq) : is_object(seq[j]))
       THEN invalid_input("Array of objects expected")
       ELSE [ok |-> TRUE, value |-> Array(SubSeq([ j \in 1 .. Len(seq) |-> seq[perm[j]] ], 1, Len(seq))),
             perm |-> perm]

\* Value::eq: values of one kind are equal when their contents are, values of
\* different kinds are not equal
value_eq(a, b) == a.t = b.t /\ a = b

\* Value::as_array
as_array(value) == IF value.t = "arr" THEN Some(value.v) ELSE None

\* UniqFilter::evaluate; deduped.contains(x) compares x with every element
\* pushed so far
UniqFilter_evaluate_adjacent(input) ==
    IF as_array(input) = None THEN invalid_input("Array expected")
    ELSE LET array == as_array(input)[1]
             deduped[j \in 0 .. Len(array)] ==
                 IF j = 0 THEN << >>
                 ELSE IF deduped[j - 1] # << >>
                         /\ value_eq(deduped[j - 1][Len(deduped[j - 1])], array[j])
                      THEN deduped[j - 1]
                      ELSE Append(deduped[j - 1], array[j])
         IN [ok |-> TRUE, value |-> Array(deduped[Len(array)])]
UniqFilter_evaluate(input) ==
    IF as_array(input) = None THEN invalid_input("Array expected")
    ELSE LET array == as_array(input)[1]
             deduped[j \in 0 .. Len(array)] ==
                 IF j = 0 THEN << >>
                 ELSE IF \E h \in 1 .. Len(deduped[j - 1]) : value_eq(deduped[j - 1][h], array[j])
                      THEN deduped[j - 1]
                      ELSE Append(deduped[j - 1], array[j])
         IN [ok |-> TRUE, value |-> Array(deduped[Len(array)])]

\* Value::is_truthy: Nil and false are falsey, every other value is truthy
is_truthy(value) == ~(is_nil(value) \/ (value.t = "bool" /\ ~value.v))

\* WhereFilter::evaluate; target_value is an Option<&Value>
WhereFilter_evaluate_absent_matches(input, property, target_value) ==
    IF input.t = "arr" /\ ~(\A j \in 1 .. Len(input.v) : is_object(input.v[j]))
    THEN [ok |-> TRUE, value |-> Nil]
    ELSE IF input.t \notin {"arr", "obj"}
    THEN invalid_input("Array of objects or a single object expected")
    ELSE LET keep(object) ==
                 IF target_value = None
                 THEN IF property \in DOMAIN object.v THEN is_truthy(object.v[property]) ELSE TRUE
                 ELSE IF property \in DOMAIN object.v
                      THEN value_eq(object.v[property], target_value[1])
                      ELSE TRUE
         IN [ok |-> TRUE, value |-> Array(SelectSeq(as_sequence(input), keep))]
WhereFilter_evaluate_skips_non_objects(input, property, target_value) ==
    IF input.t \notin {"arr", "obj"}
    THEN invalid_input("Array of objects or a single object expected")
    ELSE LET keep(object) ==
                 /\ is_object(object)
                 /\ IF target_value = None
                    THEN IF property \in DOMAIN object.v THEN is_truthy(object.v[property]) ELSE FALSE
                    ELSE IF property \in DOMAIN object.v
                         THEN value_eq(object.v[property], target_value[1])
                         ELSE FALSE
         IN [ok |-> TRUE, value |-> Array(SelectSeq(as_sequence(input), keep))]
WhereFilter_evaluate(input, property, target_value) ==
    IF input.t = "arr" /\ ~(\A j \in 1 .. Len(input.v) : is_object(input.v[j]))
    THEN [ok |-> TRUE, value |-> Nil]
    ELSE IF input.t \notin {"arr", "obj"}
    THEN invalid_input("Array of objects or a single object expected")
    ELSE LET keep(object) ==
                 IF target_value = None
                 THEN IF property \in DOMAIN object.v THEN is_truthy(object.v[property]) ELSE FALSE
                 ELSE IF property \in DOMAIN object.v
                      THEN value_eq(object.v[property], target_value[1])
                      ELSE FALSE
         IN [ok |-> TRUE, value |-> Array(SelectSeq(as_sequence(input), keep))]

\* itertools::join
RECURSIVE join(_, _)
join(strings, separator) ==
    IF strings = << >> THEN << >>
    ELSE IF Len(strings) = 1 THEN strings[1]
    ELSE strings[1] \o separator \o join(Tail(strings), separator)

\* JoinFilter::evaluate; separator is the Option<str> of the evaluated arguments
JoinFilter_evaluate(input, separator) ==
    IF as_array(input) = None THEN invalid_input("Array of strings expected")
    ELSE LET array == as_array(input)[1]
         IN [ok |-> TRUE,
             value |-> tos(join([ j \in 1 .. Len(array) |-> to_str(array[j]) ],
                                unwrap_or(separator, << 32 >>)))]

\* ReverseFilter::evaluate
ReverseFilter_evaluate_as_sequence(input) ==
    LET array == as_sequence(input)
    IN [ok |-> TRUE,
        value |-> Array([ j \in 1 .. Len(array) |-> array[Len(array) + 1 - j] ])]
ReverseFilter_evaluate(input) ==
    IF as_array(input) = None THEN invalid_input("Array expected")
    ELSE LET array == as_array(input)[1]
         IN [ok |-> TRUE,
             value |-> Array([ j \in 1 .. Len(array) |-> array[Len(array) + 1 - j] ])]

\* Value::get with a string key: the property of an object, nothing of a
\* scalar or Nil
Value_get(value, property) ==
    IF is_object(value) /\ property \in DOMAIN value.v THEN Some(value.v[property]) ELSE None

\* MapFilter::evaluate
MapFilter_evaluate(input, property) ==
    IF as_array(input) = None THEN invalid_input("Array expected")
    ELSE LET array == as_array(input)[1]
             has(v) == Value_get(v, property) # None
             found == SelectSeq(array, has)
         IN [ok |-> TRUE,
             value |-> Array([ j \in 1 .. Len(found) |-> Value_get(found[j], property)[1] ])]

\* CompactFilter::evaluate; property is an Option<&str>
CompactFilter_evaluate(input, property) ==
    IF as_array(input) = None THEN invalid_input("Array expected")
    ELSE LET array == as_array(input)[1]
             not_nil(v) == ~is_nil(v)
             has(v) == ~(IF is_object(v) /\ property[1] \in DOMAIN v.v
                         THEN is_nil(v.v[property[1]])
                         ELSE TRUE)
         IN IF property # None
            THEN IF ~(\A j \in 1 .. Len(array) : is_object(array[j]))
                 THEN invalid_input("Array of objects expected")
                 ELSE [ok |-> TRUE, value |-> Array(SelectSeq(array, has))]
            ELSE [ok |-> TRUE, value |-> Array(SelectSeq(array, not_nil))]

\* ConcatFilter::evaluate; array is the evaluated argument
ConcatFilter_evaluate(input, array) ==
    IF as_array(input) = None THEN invalid_input("Array expected")
    ELSE IF as_array(array) = None
    THEN [ok |-> FALSE, error |-> "Invalid argument", argument |-> "array",
          cause |-> "Array expected"]
    ELSE [ok |-> TRUE, value |-> Array(as_array(input)[1] \o as_array(array)[1])]

(***************************************************************************)
(* Parsing of the tags: src/src/tags/interrupt_tags.rs, ifchanged_block.rs  *)
(***************************************************************************)
parse_error(cause) == [ok |-> FALSE, error |-> "Parse error", cause |-> cause]

\* TagTokenIter::expect_nothing: an error when a token is left
expect_nothing(arguments) ==
    IF arguments = << >> THEN [ok |-> TRUE] ELSE parse_error("expected nothing")

\* an element of a block body whose tag is not in the registry
UnknownElement == [k |-> "unknown"]

\* TagBlock::parse_all: the renderables of the elements of the body, or the
\* parse error of the first element that does not parse
parse_all(tokens) ==
    IF \E j \in 1 .. Len(tokens) : tokens[j] = UnknownElement
    THEN parse_error("unknown tag")
    ELSE [ok |-> TRUE, nodes |-> tokens]

BreakTag_parse_ignores_arguments(arguments) ==
    [ok |-> TRUE, renderable |-> BreakNode]
BreakTag_parse(arguments) ==
    IF ~expect_nothing(arguments).ok THEN expect_nothing(arguments)
    ELSE [ok |-> TRUE, renderable |-> BreakNode]

ContinueTag_parse(arguments) ==
    IF ~expect_nothing(arguments).ok THEN expect_nothing(arguments)
    ELSE [ok |-> TRUE, renderable |-> ContinueNode]

\* IfChangedBlock::parse; id is the identity of the node that is constructed
IfChangedBlock_parse(arguments, tokens, id) ==
    IF ~expect_nothing(arguments).ok THEN expect_nothing(arguments)
    ELSE IF ~parse_all(tokens).ok THEN parse_all(tokens)
    ELSE [ok |-> TRUE, renderable |-> IfChangedNode(id, parse_all(tokens).nodes)]

(***************************************************************************)
(* Filter parameters and their validation                                  *)
(***************************************************************************)
Param(name, required) == [name |-> name, required |-> required]

JoinArgs == << Param("separator", FALSE) >>
PropertyArgs == << Param("property", FALSE) >>
WhereArgs == << Param("property", TRUE), Param("target_value", FALSE) >>
MapArgs == << Param("property", TRUE) >>
ConcatArgs_optional == << Param("array", FALSE) >>
ConcatArgs == << Param("array", TRUE) >>
NoArgs == << >>

FilterNames ==
    { "join", "sort", "sort_natural", "where", "uniq", "reverse", "map", "compact",
      "concat", "first", "last" }

FilterParameters(f) ==
    CASE f = "join" -> JoinArgs
      [] f \in {"sort", "sort_natural", "compact"} -> PropertyArgs
      [] f = "where" -> WhereArgs
      [] f = "map" -> MapArgs
      [] f = "concat" -> ConcatArgs
      [] OTHER -> NoArgs

\* ParseFilter::parse on FilterArguments { positional, keyword }: positional
\* arguments bind to the parameters in order, keyword arguments by name
ParseFilter_parse(f, npositional, keyword) ==
    LET params == FilterParameters(f)
        names == { params[j].name : j \in 1 .. Len(params) }
        bound(j) == j <= npositional \/ \E h \in 1 .. Len(keyword) : keyword[h] = params[j].name
    IN IF npositional > Len(params)
       THEN [ok |-> FALSE, error |-> "Invalid number of positional arguments"]
       ELSE IF \E h \in 1 .. Len(keyword) : keyword[h] \notin names
       THEN [ok |-> FALSE, error |-> "Unexpected named argument"]
       ELSE IF \E h \in 1 .. Len(keyword) :
                  \E j \in 1 .. Len(params) :
                      /\ keyword[h] = params[j].name
                      /\ \/ j <= npositional
                         \/ \E g \in 1 .. h - 1 : keyword[g] = keyword[h]
       THEN [ok |-> FALSE, error |-> "Multiple definitions of the same argument"]
       ELSE IF \E j \in 1 .. Len(params) : params[j].required /\ ~bound(j)
       THEN [ok |-> FALSE, error |-> "Invalid number of arguments"]
       ELSE [ok |-> TRUE, filter |-> f]

(***************************************************************************)
(* Inputs of the filters                                                   *)
(***************************************************************************)
MaxArray == 3
MaxPositional == 3
MaxKeyword == 2

I1 == Integer(1)
I2 == Integer(2)
I10 == Integer(10)
SZ == tos(<< 90 >>)
Sa == tos(<< 97 >>)
Sb == tos(<< 98 >>)
Sc == tos(<< 99 >>)
SB == tos(<< 66 >>)
Sab == tos(<< 97, 98 >>)
O1 == Object([k |-> I1, n |-> I1])
O2 == Object([k |-> I1, n |-> I2])
O3 == Object([k |-> I2, n |-> I1])
O4 == Object([n |-> I2])
O5 == Object([k |-> Nil, n |-> I1])
O6 == Object([k |-> Sa, n |-> I1])

Scalars == { I1, I2, I10, SZ, Sa, Sb, SB, Sab, Bool(TRUE), Bool(FALSE) }
CompareValues == Scalars \cup { Nil, O1 }
KeyValues == Scalars \cup { Nil }
SortElements == { Nil, I1, I2, SZ, Sa, Sb, O1 }
ObjectElements == { O1, O2, O3, O4, O5, O6 }

SeqsUpTo(S, n) == UNION { [1 .. m -> S] : m \in 0 .. n }

unit_sort_input == Array(<< SZ, Sb, Sc, Sa >>)
unit_sort_result == Array(<< SZ, Sa, Sb, Sc >>)

SortInputs ==
    { Array(x) : x \in SeqsUpTo(SortElements, MaxArray) }
        \cup { unit_sort_input, Nil, I1, Sa, O1 }
SortByInputs ==
    { Array(x) : x \in SeqsUpTo(ObjectElements \cup { I1 }, MaxArray) } \cup { Nil, I1, O1 }

unit_sort_natural_result == Array(<< Sa, Sb, Sc, SZ >>)

SortNaturalInputs ==
    { Array(x) : x \in SeqsUpTo({ Nil, I1, I2, I10, SZ, Sa, Sb, SB }, MaxArray) }
        \cup { unit_sort_input, Nil, I1, Sa }
SortNaturalByInputs ==
    { Array(x) : x \in SeqsUpTo({ O1, O3, O4, O5, I1,
                                  Object([k |-> SB, n |-> I2]),
                                  Object([k |-> Sb, n |-> I1]) }, MaxArray) }
        \cup { Nil, I1, O1 }

unit_uniq_input == Array(<< Sa, Sb, Sa >>)
unit_uniq_result == Array(<< Sa, Sb >>)
\* "ants", "bugs", "bees", "bugs", "ants"
unit_uniq_shopify_liquid_input ==
    Array(<< tos(<< 97, 110, 116, 115 >>), tos(<< 98, 117, 103, 115 >>),
             tos(<< 98, 101, 101, 115 >>), tos(<< 98, 117, 103, 115 >>),
             tos(<< 97, 110, 116, 115 >>) >>)
unit_uniq_shopify_liquid_result ==
    Array(<< tos(<< 97, 110, 116, 115 >>), tos(<< 98, 117, 103, 115 >>),
             tos(<< 98, 101, 101, 115 >>) >>)

NonArrays == { Nil, I1, Sa, Bool(TRUE), O1 }
UniqInputs ==
    { Array(x) : x \in SeqsUpTo({ Nil, I1, I2, Sa, Sb, O1, O2 }, MaxArray) }
        \cup { unit_uniq_input, unit_uniq_shopify_liquid_input } \cup NonArrays

K1 == Object([k |-> I1])
K2 == Object([k |-> I2])
where_input == Array(<< K1, K2, K1 >>)
where_result == Array(<< K1, K1 >>)

\* the inputs of where with a target value
WhereInputs ==
    { Array(x) : x \in SeqsUpTo({ K1, K2, O2, O4, O5, O6, I1 }, MaxArray) }
        \cup { K1, K2, O4, Nil, I1, Sa }
\* the inputs of where without a target value: properties that are false and true
WhereTruthyInputs ==
    { Array(x) : x \in SeqsUpTo({ K1, O4, O5, O6, Sa,
                                  Object([k |-> Bool(FALSE), n |-> I1]),
                                  Object([k |-> Bool(TRUE), n |-> I1]) }, MaxArray) }
        \cup { K1, O4, O5, Object([k |-> Bool(FALSE), n |-> I1]),
               Object([k |-> Bool(TRUE), n |-> I1]), Nil, I1, Sa, Bool(TRUE) }

MaxTokens == 2
MaxBody == 2

unit_join_input == Array(<< Sa, Sb, Sc >>)
\* "a,b,c"
unit_join_result == tos(<< 97, 44, 98, 44, 99 >>)

JoinInputs ==
    { Array(x) : x \in SeqsUpTo({ Sa, Sb, I1, Nil }, MaxArray) }
        \cup { unit_join_input } \cup NonArrays
ArrayInputs ==
    { Array(x) : x \in SeqsUpTo({ Nil, I1, Sa, K1, O4, O5 }, MaxArray) } \cup NonArrays
ConcatInputs ==
    { Array(x) : x \in SeqsUpTo({ I1, Sa }, MaxArray) } \cup NonArrays

KeywordNames == { "property", "array", "bogus" }

(***************************************************************************)
(* The filters applied to inputs                                           *)
(***************************************************************************)
RenderIdle ==
    /\ tid = "top_break"
    /\ at = 0
    /\ stack = << >>
    /\ bufs = << "" >>
    /\ interrupt = "None"
    /\ registers = << >>
    /\ scopes = << >>
    /\ status = "ok"
    /\ trace = << >>
    /\ log = << >>
    /\ renders = 0

DoParse ==
    /\ fpc = "idle"
    /\ \E f \in FilterNames, np \in 0 .. MaxPositional, kw \in SeqsUpTo(KeywordNames, MaxKeyword) :
        /\ fpc' = "parse"
        /\ fin' = [filter |-> f, npositional |-> np, keyword |-> kw]
        /\ fres' = ParseFilter_parse(f, np, kw)
        /\ UNCHANGED rvars

DoCompare ==
    /\ fpc = "idle"
    /\ \E a \in CompareValues, b \in CompareValues :
        /\ fpc' = "compare"
        /\ fin' = [a |-> a, b |-> b]
        /\ fres' = [cmp |-> nil_safe_compare(a, b), rev |-> nil_safe_compare(b, a)]
        /\ UNCHANGED rvars

DoCaseCompare ==
    /\ fpc = "idle"
    /\ \E a \in KeyValues, b \in KeyValues :
        /\ fpc' = "casecmp"
        /\ fin' = [a |-> a, b |-> b]
        /\ fres' = [cmp |-> nil_safe_casecmp(nil_safe_casecmp_key(a), nil_safe_casecmp_key(b)),
                    rev |-> nil_safe_casecmp(nil_safe_casecmp_key(b), nil_safe_casecmp_key(a))]
        /\ UNCHANGED rvars

DoSort ==
    /\ fpc = "idle"
    /\ \E input \in SortInputs :
        /\ fpc' = "sort"
        /\ fin' = [input |-> input, property |-> None]
        /\ fres' = SortFilter_evaluate(input, None)
        /\ UNCHANGED rvars

DoSortBy ==
    /\ fpc = "idle"
    /\ \E input \in SortByInputs :
        /\ fpc' = "sort"
        /\ fin' = [input |-> input, property |-> Some("k")]
        /\ fres' = SortFilter_evaluate(input, Some("k"))
        /\ UNCHANGED rvars

DoSortNatural ==
    /\ fpc = "idle"
    /\ \E property \in { None, Some("k") } :
       \E input \in IF property = None THEN SortNaturalInputs ELSE SortNaturalByInputs :
        /\ fpc' = "sort_natural"
        /\ fin' = [input |-> input, property |-> property]
        /\ fres' = SortNaturalFilter_evaluate(input, property)
        /\ UNCHANGED rvars

\* uniq, and uniq applied to its own output
DoUniq ==
    /\ fpc = "idle"
    /\ \E input \in UniqInputs :
        /\ fpc' = "uniq"
        /\ fin' = [input |-> input]
        /\ fres' = LET r == UniqFilter_evaluate(input)
                   IN IF r.ok THEN [ok |-> TRUE, value |-> r.value,
                                    again |-> UniqFilter_evaluate(r.value)]
                      ELSE r
        /\ UNCHANGED rvars

DoWhere ==
    /\ fpc = "idle"
    /\ \E target_value \in { None, Some(I1), Some(I2), Some(Sa), Some(Nil) } :
       \E input \in IF target_value = None THEN WhereTruthyInputs ELSE WhereInputs :
        /\ fpc' = "where"
        /\ fin' = [input |-> input, property |-> "k", target_value |-> target_value]
        /\ fres' = WhereFilter_evaluate(input, "k", target_value)
        /\ UNCHANGED rvars

DoParseTag ==
    /\ fpc = "idle"
    /\ \E arguments \in SeqsUpTo({ "x", "1" }, MaxTokens) :
       \E tag \in { "break", "continue" } :
        /\ fpc' = "parse_tag"
        /\ fin' = [tag |-> tag, arguments |-> arguments, tokens |-> << >>]
        /\ fres' = IF tag = "break" THEN BreakTag_parse(arguments)
                   ELSE ContinueTag_parse(arguments)
        /\ UNCHANGED rvars

DoParseBlock ==
    /\ fpc = "idle"
    /\ \E arguments \in SeqsUpTo({ "x", "1" }, MaxTokens) :
       \E tokens \in SeqsUpTo({ Text("x"), BreakNode, UnknownElement }, MaxBody) :
        /\ fpc' = "parse_tag"
        /\ fin' = [tag |-> "ifchanged", arguments |-> arguments, tokens |-> tokens]
        /\ fres' = IfChangedBlock_parse(arguments, tokens, 1)
        /\ UNCHANGED rvars

DoJoin ==
    /\ fpc = "idle"
    /\ \E input \in JoinInputs, separator \in { None, Some(<< 44 >>), Some(<< 49 >>) } :
        /\ fpc' = "join"
        /\ fin' = [input |-> input, separator |-> separator]
        /\ fres' = JoinFilter_evaluate(input, separator)
        /\ UNCHANGED rvars

DoReverse ==
    /\ fpc = "idle"
    /\ \E input \in ArrayInputs :
        /\ fpc' = "reverse"
        /\ fin' = [input |-> input]
        /\ fres' = ReverseFilter_evaluate(input)
        /\ UNCHANGED rvars

DoMap ==
    /\ fpc = "idle"
    /\ \E input \in ArrayInputs :
        /\ fpc' = "map"
        /\ fin' = [input |-> input, property |-> "k"]
        /\ fres' = MapFilter_evaluate(input, "k")
        /\ UNCHANGED rvars

DoCompact ==
    /\ fpc = "idle"
    /\ \E input \in ArrayInputs, property \in { None, Some("k") } :
        /\ fpc' = "compact"
        /\ fin' = [input |-> input, property |-> property]
        /\ fres' = CompactFilter_evaluate(input, property)
        /\ UNCHANGED rvars

DoConcat ==
    /\ fpc = "idle"
    /\ \E input \in ConcatInputs, array \in ConcatInputs :
        /\ fpc' = "concat"
        /\ fin' = [input |-> input, array |-> array]
        /\ fres' = ConcatFilter_evaluate(input, array)
        /\ UNCHANGED rvars

\* the next filter invocation starts from nothing
FilterReset ==
    /\ fpc # "idle"
    /\ fpc' = "idle"
    /\ fin' = << >>
    /\ fres' = << >>
    /\ UNCHANGED rvars

FilterInit ==
    /\ RenderIdle
    /\ FilterIdle

FilterNext ==
    \/ DoParse
    \/ DoCompare
    \/ DoCaseCompare
    \/ DoSort
    \/ DoSortBy
    \/ DoSortNatural
    \/ DoUniq
    \/ DoWhere
    \/ DoParseTag
    \/ DoParseBlock
    \/ DoJoin
    \/ DoReverse
    \/ DoMap
    \/ DoCompact
    \/ DoConcat
    \/ FilterReset

FilterSpec == FilterInit /\ [][FilterNext]_vars

(***************************************************************************)
(* Properties of the filters                                               *)
(***************************************************************************)
\* C8: the arguments are validated when the filter invocation is parsed:
\* more positional arguments than declared parameters, an undeclared keyword
\* or a missing required parameter is an error (concat with two or with no
\* argument, reverse or uniq with one); exactly the declared required
\* arguments parse.
C8_ArgumentValidation ==
    fpc = "parse" =>
        LET f == fin.filter
            np == fin.npositional
            kw == fin.keyword
            declared == FilterParameters(f)
            names == { declared[j].name : j \in 1 .. Len(declared) }
            required == { j \in 1 .. Len(declared) : declared[j].required }
        IN /\ np > Len(declared) => ~fres.ok
           /\ (\E h \in 1 .. Len(kw) : kw[h] \notin names) => ~fres.ok
           /\ (\E j \in required : j > np /\ \A h \in 1 .. Len(kw) : kw[h] # declared[j].name)
                 => ~fres.ok
           /\ (kw = << >> /\ np = Cardinality(required)) => fres.ok
           /\ (f = "concat" /\ kw = << >> /\ np \in {0, 2}) => ~fres.ok
           /\ (f = "concat" /\ kw = << >> /\ np = 1) => fres.ok
           /\ (f \in {"reverse", "uniq"} /\ np = 1) => ~fres.ok
           /\ (f \in {"reverse", "uniq", "sort", "join"} /\ kw = << >> /\ np = 0) => fres.ok

C8_Witness ==
    /\ fpc = "parse"
    /\ fin.filter = "concat"
    /\ fin.npositional = 0
    /\ fin.keyword = << >>
    /\ ~fres.ok

\* C9: Nil against Nil is Equal, Nil against a non-nil value is Greater, a
\* non-nil value against Nil is Less, two non-nil values compare by the
\* order of their kind and values of different kinds have no ordering; the
\* result for (a, b) is the reverse of the result for (b, a); the
\* case-insensitive variant does the same on the lowercased strings.
C9_NilSafeCompare ==
    /\ fpc = "compare" =>
          LET a == fin.a
              b == fin.b
              r == fres.cmp
          IN /\ (a = Nil /\ b = Nil) => r = Some(Equal)
             /\ (a = Nil /\ b # Nil) => r = Some(Greater)
             /\ (a # Nil /\ b = Nil) => r = Some(Less)
             /\ (a # Nil /\ b # Nil /\ a.t # b.t) => r = None
             /\ (a.t = "int" /\ b.t = "int") =>
                   r = Some(IF a.v < b.v THEN Less ELSE IF a.v = b.v THEN Equal ELSE Greater)
             /\ (a.t = "str" /\ b.t = "str") => r = Some(str_cmp(a.v, b.v))
             /\ (a = SZ /\ b = Sa) => r = Some(Less)
             /\ (a = Sab /\ b = Sa) => r = Some(Greater)
             /\ (a = O1 /\ b = I1) => r = None
             /\ fres.rev = Reverse(r)
    /\ fpc = "casecmp" =>
          LET a == fin.a
              b == fin.b
              r == fres.cmp
          IN /\ (a = Nil /\ b = Nil) => r = Some(Equal)
             /\ (a = Nil /\ b # Nil) => r = Some(Greater)
             /\ (a # Nil /\ b = Nil) => r = Some(Less)
             /\ (a # Nil /\ b # Nil) =>
                   r = Some(str_cmp(to_lowercase(to_str(a)), to_lowercase(to_str(b))))
             /\ (a = SZ /\ b = Sa) => r = Some(Greater)
             /\ (a = SB /\ b = Sb) => r = Some(Equal)
             /\ (a = I10 /\ b = I2) => r = Some(Less)
             /\ fres.rev = Reverse(r)

C9_Witness ==
    /\ fpc = "compare"
    /\ fin.a = Nil
    /\ fin.b = I1
    /\ fres.cmp = Some(Greater)
    /\ fres.rev = Some(Less)

\* the sort key of the element at position j of the input
SortKey(j) ==
    LET seq == as_sequence(fin.input)
    IN IF fin.property = None THEN seq[j] ELSE safe_property_getter(seq[j], fin.property[1])

SortLen == Len(as_sequence(fin.input))

IsPermutation ==
    /\ Len(fres.value.v) = SortLen
    /\ { fres.perm[j] : j \in 1 .. SortLen } = 1 .. SortLen
    /\ \A j \in 1 .. SortLen : fres.value.v[j] = as_sequence(fin.input)[fres.perm[j]]

Ascending ==
    \A i, j \in 1 .. SortLen :
        i < j => nil_safe_compare(SortKey(fres.perm[i]), SortKey(fres.perm[j])) # Some(Greater)

NilLast ==
    \A i, j \in 1 .. SortLen :
        (i < j /\ is_nil(SortKey(fres.perm[i]))) => is_nil(SortKey(fres.perm[j]))

Stable ==
    \A i, j \in 1 .. SortLen :
        (i < j /\ nil_safe_compare(SortKey(fres.perm[i]), SortKey(fres.perm[j]))
                    \in {Some(Equal), None})
            => fres.perm[i] < fres.perm[j]

Comparable ==
    \A i, j \in 1 .. SortLen : nil_safe_compare(SortKey(i), SortKey(j)) # None

\* C10 as stated: for every input, the result is a permutation in ascending
\* order under the nil-safe comparison, nils last, and elements that compare
\* Equal or are incomparable keep their input order.
C10_SortAscending ==
    (fpc = "sort" /\ fres.ok) => IsPermutation /\ Ascending /\ NilLast /\ Stable

\* C10 amended: the result is a permutation of the input; when the sort keys
\* are mutually comparable it is in ascending order under the nil-safe
\* comparison, nils last, and elements that compare Equal keep their input
\* order. Sorting [Z, b, c, a] yields [Z, a, b, c].
C10_SortComparable ==
    (fpc = "sort" /\ fres.ok) =>
        /\ IsPermutation
        /\ Comparable => Ascending /\ NilLast /\ Stable
        /\ fin.input = unit_sort_input => fres.value = unit_sort_result

C10_Witness ==
    /\ fpc = "sort"
    /\ fin.input = unit_sort_input
    /\ fin.property = None
    /\ fres.ok
    /\ fres.value = unit_sort_result

\* the lowercased string form of the sort key at position j of the input
NaturalKey(j) == to_lowercase(to_str(SortKey(j)))

\* C11: sort_natural returns a permutation of the input elements (the
\* original values) in ascending order of the lowercased string form of each
\* element, or of its named property, with nils last; elements whose
\* lowercased strings are equal keep their input order. Sorting [Z, b, c, a]
\* yields [a, b, c, Z].
C11_SortNatural ==
    (fpc = "sort_natural" /\ fres.ok) =>
        /\ IsPermutation
        /\ NilLast
        /\ \A i, j \in 1 .. SortLen :
              (i < j /\ ~is_nil(SortKey(fres.perm[i])) /\ ~is_nil(SortKey(fres.perm[j]))) =>
                  /\ str_cmp(NaturalKey(fres.perm[i]), NaturalKey(fres.perm[j])) # Greater
                  /\ NaturalKey(fres.perm[i]) = NaturalKey(fres.perm[j]) =>
                        fres.perm[i] < fres.perm[j]
        /\ \A i, j \in 1 .. SortLen :
              (i < j /\ is_nil(SortKey(fres.perm[i])) /\ is_nil(SortKey(fres.perm[j]))) =>
                  fres.perm[i] < fres.perm[j]
        /\ fin.input = unit_sort_input => fres.value = unit_sort_natural_result

C11_Witness ==
    /\ fpc = "sort_natural"
    /\ fin.input = Array(<< SB, Sa, Sb >>)
    /\ fin.property = None
    /\ fres.ok
    /\ fres.value = Array(<< Sa, SB, Sb >>)

\* the first position of value x in sequence s
FirstPosition(s, x) == CHOOSE h \in 1 .. Len(s) : s[h] = x /\ \A g \in 1 .. h - 1 : s[g] # x

\* C12: uniq on an array returns its distinct elements in order of first
\* occurrence: every value of the input appears exactly once in the output,
\* in the order of the first positions in the input; uniq applied to its own
\* output returns the same array. uniq over [a, b, a] yields [a, b].
C12_Uniq ==
    (fpc = "uniq" /\ fin.input.t = "arr") =>
        LET s == fin.input.v
            d == fres.value.v
        IN /\ fres.ok
           /\ fres.value.t = "arr"
           /\ { d[j] : j \in 1 .. Len(d) } = { s[j] : j \in 1 .. Len(s) }
           /\ \A i, j \in 1 .. Len(d) : i # j => d[i] # d[j]
           /\ \A i, j \in 1 .. Len(d) : i < j => FirstPosition(s, d[i]) < FirstPosition(s, d[j])
           /\ fres.again.ok /\ fres.again.value = fres.value
           /\ fin.input = unit_uniq_input => fres.value = unit_uniq_result
           /\ fin.input = unit_uniq_shopify_liquid_input =>
                 fres.value = unit_uniq_shopify_liquid_result

C12_Witness ==
    /\ fpc = "uniq"
    /\ fin.input = unit_uniq_input
    /\ fres.ok
    /\ fres.value = unit_uniq_result
    /\ fres.again.value = unit_uniq_result

\* the positions of the input whose element has the property, equal to the
\* target value or, without a target value, truthy
WhereMatches ==
    { j \in 1 .. Len(fin.input.v) :
        LET e == fin.input.v[j]
        IN /\ fin.property \in DOMAIN e.v
           /\ IF fin.target_value = None
              THEN e.v[fin.property] \notin { Nil, Bool(FALSE) }
              ELSE e.v[fin.property] = fin.target_value[1] }

ArrayOfObjects(value) ==
    value.t = "arr" /\ \A j \in 1 .. Len(value.v) : value.v[j].t = "obj"

\* C13: where with property p and a target value t, applied to an array of
\* objects, returns exactly the elements whose p is present and equal to t,
\* in input order; without a target value it returns the elements whose p is
\* present and truthy. Over [{k:1},{k:2},{k:1}] with k == 1 the result is
\* [{k:1},{k:1}].
C13_Where ==
    (fpc = "where" /\ ArrayOfObjects(fin.input)) =>
        /\ fres.ok
        /\ fres.value.t = "arr"
        /\ Len(fres.value.v) = Cardinality(WhereMatches)
        /\ \A i \in 1 .. Len(fres.value.v) :
              fres.value.v[i] =
                  fin.input.v[CHOOSE j \in WhereMatches :
                                  Cardinality({ h \in WhereMatches : h < j }) = i - 1]
        /\ (fin.input = where_input /\ fin.target_value = Some(I1)) => fres.value = where_result

C13_Witness ==
    /\ fpc = "where"
    /\ fin.input = where_input
    /\ fin.target_value = Some(I1)
    /\ fres.ok
    /\ fres.value = where_result

\* C14 as stated: break, continue and ifchanged fail with a parse error, and
\* produce no renderable, whenever an argument token is supplied; with an
\* empty argument list parsing succeeds.
C14_NoArguments ==
    fpc = "parse_tag" =>
        /\ fin.arguments # << >> => ~fres.ok /\ "renderable" \notin DOMAIN fres
        /\ fin.arguments = << >> => fres.ok

\* C14 amended: with an argument token all three fail with a parse error and
\* produce no renderable; with an empty argument list break and continue
\* parse to their renderable, and ifchanged parses exactly when its body
\* parses: the parse error of the body is returned.
C14_NoArgumentsBodyParses ==
    fpc = "parse_tag" =>
        LET body_parses == \A j \in 1 .. Len(fin.tokens) : fin.tokens[j] # UnknownElement
        IN /\ fin.arguments # << >> =>
                 ~fres.ok /\ "renderable" \notin DOMAIN fres /\ fres.error = "Parse error"
           /\ (fin.arguments = << >> /\ fin.tag = "break") =>
                 fres.ok /\ fres.renderable = BreakNode
           /\ (fin.arguments = << >> /\ fin.tag = "continue") =>
                 fres.ok /\ fres.renderable = ContinueNode
           /\ (fin.arguments = << >> /\ fin.tag = "ifchanged") =>
                 /\ fres.ok <=> body_parses
                 /\ fres.ok => fres.renderable = IfChangedNode(1, fin.tokens)
                 /\ ~fres.ok => "renderable" \notin DOMAIN fres /\ fres.error = "Parse error"

C14_Witness ==
    /\ fpc = "parse_tag"
    /\ fin.tag = "ifchanged"
    /\ fin.arguments = << >>
    /\ fin.tokens = << Text("x"), UnknownElement >>
    /\ ~fres.ok

\* C15: join, uniq, reverse, map, compact and concat return a render error,
\* and no value, for every input that is not an array (scalar, nil or
\* object); concat also returns an error when its argument is not an array.
\* An array input (with an array argument for concat) is not refused for
\* its kind.
C15_ArrayExpected ==
    fpc \in { "join", "uniq", "reverse", "map", "compact", "concat" } =>
        /\ fin.input.t # "arr" =>
              /\ ~fres.ok
              /\ "value" \notin DOMAIN fres
              /\ fres.error = "Invalid input"
        /\ (fpc = "concat" /\ fin.array.t # "arr") =>
              /\ ~fres.ok
              /\ "value" \notin DOMAIN fres
        /\ (fpc = "concat" /\ fin.input.t = "arr" /\ fin.array.t # "arr") =>
              fres.error = "Invalid argument"
        /\ (fin.input.t = "arr" /\ fpc \in { "join", "uniq", "reverse", "map" }) => fres.ok
        /\ (fpc = "concat" /\ fin.input.t = "arr" /\ fin.array.t = "arr") =>
              fres.ok /\ fres.value = Array(fin.input.v \o fin.array.v)
        /\ (fpc = "join" /\ fin.input = unit_join_input /\ fin.separator = Some(<< 44 >>)) =>
              fres.value = unit_join_result
        /\ (fpc = "join" /\ fin.input = unit_join_input /\ fin.separator = None) =>
              fres.value = tos(<< 97, 32, 98, 32, 99 >>)

C15_Witness ==
    /\ fpc = "concat"
    /\ fin.input = Array(<< I1, Sa >>)
    /\ fin.array = I1
    /\ ~fres.ok
    /\ fres.error = "Invalid argument"

\* C19: where on an array in which an element is not an object yields Nil,
\* neither an error nor a filtered array; a single object is treated as a
\* sequence of one and yields an array of no element or of that object; a
\* scalar or Nil input yields a render error.
C19_WhereInputKinds ==
    fpc = "where" =>
        /\ (fin.input.t = "arr" /\ ~ArrayOfObjects(fin.input)) =>
              fres.ok /\ fres.value = Nil
        /\ ArrayOfObjects(fin.input) => fres.ok /\ fres.value.t = "arr"
        /\ fin.input.t = "obj" =>
              /\ fres.ok
              /\ fres.value.t = "arr"
              /\ fres.value.v \in { << >>, << fin.input >> }
              /\ fres.value.v = << fin.input >> <=>
                    /\ fin.property \in DOMAIN fin.input.v
                    /\ IF fin.target_value = None
                       THEN fin.input.v[fin.property] \notin { Nil, Bool(FALSE) }
                       ELSE fin.input.v[fin.property] = fin.target_value[1]
        /\ fin.input.t \notin { "arr", "obj" } =>
              /\ ~fres.ok
              /\ "value" \notin DOMAIN fres
              /\ fres.error = "Invalid input"

C19_Witness ==
    /\ fpc = "where"
    /\ fin.input = Array(<< K1, I1 >>)
    /\ fin.target_value = Some(I1)
    /\ fres.ok
    /\ fres.value = Nil

Init ==
    /\ RenderInit
    /\ FilterIdle

Next ==
    \/ RenderText
    \/ RenderVar
    \/ RenderBreak
    \/ RenderContinue
    \/ RenderRaise
    \/ RenderIf
    \/ IfReturn
    \/ EnterFor
    \/ ForIterate
    \/ ForBodyDone
    \/ ForExit
    \/ EnterIfChanged
    \/ IfChangedDone
    \/ RenderDone
    \/ NewRender

Spec == Init /\ [][Next]_vars
====
